---- MODULE Spec2Model ----
(***************************************************************************)
(* A model of bikeshed/refs/RefSource.py: the RefSource anchor store       *)
(* (fetchRefs, fetchAllRefs, addMethodVariants), the query pipeline        *)
(* (queryRefs, _queryRefs) and the anchor file decoder (decodeAnchors).    *)
(*                                                                         *)
(* Representation.  A Python string is a TLA+ string; the operations that  *)
(* look inside a string (lower, endswith, slicing, the regular             *)
(* expressions, comparison) are computed on its characters, which Chars    *)
(* lists for every string of the model.  A line of an anchor file is       *)
(* modelled by its content, the terminating newline left out: the line     *)
(* "\n" of the source is "" here and the line "-\n" is "-".  Python's None *)
(* is the string None below; an optional boolean is <<>> or <<b>>.         *)
(***************************************************************************)
EXTENDS Integers, Sequences, FiniteSets, TLC

None == "<None>"

(***************************************************************************)
(* Characters of the strings of the model.                                 *)
(***************************************************************************)
Chars(s) ==
    CASE s = ""                -> <<>>
      [] s = "Foo"             -> <<"F","o","o">>
      [] s = "foo"             -> <<"f","o","o">>
      [] s = "foo()"           -> <<"f","o","o","(",")">>
      [] s = "foo(bar, baz)"   -> <<"f","o","o","(","b","a","r",","," ","b","a","z",")">>
      [] s = "bar"             -> <<"b","a","r">>
      [] s = " baz"            -> <<" ","b","a","z">>
      [] s = "baz"             -> <<"b","a","z">>
      [] s = "bar, baz"        -> <<"b","a","r",","," ","b","a","z">>
      [] s = "fo"              -> <<"f","o">>
      [] s = "ba"              -> <<"b","a">>
      [] s = "1"               -> <<"1">>
      [] s = "2"               -> <<"2">>
      [] s = "anchors-"        -> <<"a","n","c","h","o","r","s","-">>
      [] s = ".data"           -> <<".","d","a","t","a">>
      [] s = "anchors-fo.data" -> <<"a","n","c","h","o","r","s","-","f","o",".","d","a","t","a">>
      [] s = "anchors-ba.data" -> <<"a","n","c","h","o","r","s","-","b","a",".","d","a","t","a">>

StringUniverse ==
    { "", "Foo", "foo", "foo()", "foo(bar, baz)", "bar", " baz", "baz",
      "bar, baz", "fo", "ba", "1", "2", "anchors-", ".data",
      "anchors-fo.data", "anchors-ba.data" }

\* The string with the given characters.
Str(cs) == CHOOSE s \in StringUniverse : Chars(s) = cs

UpperCase == <<"A","B","C","D","E","F","G","H","I","J","K","L","M",
               "N","O","P","Q","R","S","T","U","V","W","X","Y","Z">>
LowerCase == <<"a","b","c","d","e","f","g","h","i","j","k","l","m",
               "n","o","p","q","r","s","t","u","v","w","x","y","z">>
Digits == <<"0","1","2","3","4","5","6","7","8","9">>

\* The characters of the model in code point order.
CodeOrder == <<" ", "(", ")", ",", "-", ".", "/">> \o Digits \o UpperCase \o <<"_">> \o LowerCase

Code(c) == CHOOSE i \in 1..Len(CodeOrder) : CodeOrder[i] = c

LowerChar(c) ==
    IF \E i \in 1..Len(UpperCase) : UpperCase[i] = c
    THEN LowerCase[CHOOSE i \in 1..Len(UpperCase) : UpperCase[i] = c]
    ELSE c

\* str.lower()
Lower(s) == Str([i \in 1..Len(Chars(s)) |-> LowerChar(Chars(s)[i])])

\* str.endswith("()")
EndsWithParens(s) ==
    LET cs == Chars(s)
    IN  Len(cs) >= 2 /\ cs[Len(cs) - 1] = "(" /\ cs[Len(cs)] = ")"

\* Python's < on two strings: lexicographic by code point.
RECURSIVE CharsLess(_, _)
CharsLess(a, b) ==
    IF b = <<>> THEN FALSE
    ELSE IF a = <<>> THEN TRUE
    ELSE IF Code(Head(a)) # Code(Head(b)) THEN Code(Head(a)) < Code(Head(b))
    ELSE CharsLess(Tail(a), Tail(b))

StrLess(s, t) == CharsLess(Chars(s), Chars(t))

\* max() of a non-empty set of strings.
StrMax(S) == CHOOSE m \in S : \A s \in S : ~StrLess(m, s)

(***************************************************************************)
(* Helpers for sequences and dicts.                                        *)
(***************************************************************************)
Range(seq) == { seq[i] : i \in 1..Len(seq) }

RECURSIVE Flatten(_)
Flatten(seqs) == IF seqs = <<>> THEN <<>> ELSE Head(seqs) \o Flatten(Tail(seqs))

\* dict.update(other): every key of other replaces or adds its entry.
DictUpdate(d, other) ==
    [k \in (DOMAIN d) \cup (DOMAIN other) |-> IF k \in DOMAIN other THEN other[k] ELSE d[k]]

\* dict.get(key, default)
DictGet(d, k, default) == IF k \in DOMAIN d THEN d[k] ELSE default

EmptyDict == [k \in {} |-> <<>>]

(***************************************************************************)
(* The collaborators in bikeshed.config and bikeshed.refs.utils.           *)
(***************************************************************************)
\* config.dfnTypes: the definition kinds.
dfnTypes == {"dfn", "method", "interface"}

\* config.linkTypeToDfnType: the link types that stand for several kinds.
linkTypeToDfnType == [t \in {"idl"} |-> {"method", "interface"}]

\* config.lowercaseTypes: the link types whose texts are matched case-insensitively.
lowercaseTypes == {"dfn"}

\* config.refStatus: the lifecycle statuses.
refStatus == {"current", "snapshot"}

\* config.linkStatuses: every status a link may ask for.
linkStatuses == {"current", "snapshot", "local"}

\* config.groupFromKey(key): the first two characters of the lowercased key that
\* are letters or digits, padded with "_".
groupFromKey(key) ==
    LET cs   == Chars(Lower(key))
        safe == SelectSeq(cs, LAMBDA c : c \in Range(LowerCase) \cup Range(Digits))
        pad  == safe \o <<"_", "_">>
    IN  Str(SubSeq(pad, 1, 2))

\* linkTextVariations(text, linkType): the text itself and, for a method-like
\* link type, a text ending in "()" without its parentheses.
linkTextVariations(text, linkType) ==
    <<text>> \o
    (IF linkType \in {"method", "idl"} /\ EndsWithParens(text)
     THEN <<Str(SubSeq(Chars(text), 1, Len(Chars(text)) - 2))>>
     ELSE <<>>)

(***************************************************************************)
(* Anchors.  An anchor is the dict decodeAnchors builds; RefWrapper pairs  *)
(* it with the linking text it was found under and gives its entries as    *)
(* attributes, stripped of the newline that the content of a line leaves   *)
(* out here.                                                               *)
(***************************************************************************)
Anchor(type, spec, shortname, level, status, url, export, for) ==
    [type |-> type, spec |-> spec, shortname |-> shortname, level |-> level,
     status |-> status, url |-> url, export |-> export, normative |-> TRUE,
     for |-> for]

RefWrapper(text, ref) == [text |-> text, ref |-> ref]

\* filterObsoletes(refs, replacedSpecs, ignoredSpecs): drops the refs of an ignored
\* spec and those of a replaced spec whose replacement is among the refs.
filterObsoletes(refs, replaced, ignored) ==
    LET possibleSpecs == { refs[i].ref.spec : i \in 1..Len(refs) }
        moreIgnores   == { p[1] : p \in { q \in replaced : q[2] \in possibleSpecs } }
    IN  SelectSeq(refs, LAMBDA x : x.ref.spec \notin ignored /\ x.ref.spec \notin moreIgnores)

(***************************************************************************)
(* The anchor corpora the model runs on, as (key, anchor) entries in file  *)
(* order, and the spec metadata that goes with them.                       *)
(***************************************************************************)
Entry(key, a) == [key |-> key, a |-> a]

CorpusFull ==
    << Entry("foo",   Anchor("dfn",    "css-a-1", "css-a", "1", "snapshot", "u1", TRUE,  <<>>)),
       Entry("foo",   Anchor("dfn",    "css-a-2", "css-a", "2", "current",  "u2", TRUE,  <<>>)),
       Entry("foo",   Anchor("dfn",    "old",     "old",   "1", "snapshot", "u5", FALSE, <<>>)),
       Entry("foo()", Anchor("method", "dom",     "dom",   "1", "current",  "u3", TRUE,  <<"Ifc">>)),
       Entry("foo(bar, baz)",
                      Anchor("method", "dom",     "dom",   "1", "current",  "u4", TRUE,  <<"Ifc">>)),
       Entry("bar",   Anchor("method", "dom",     "dom",   "1", "local",    "u3", TRUE,  <<"Ifc">>)) >>

\* The same corpus without the anchor keyed exactly "foo()".
CorpusNoArgless == SelectSeq(CorpusFull, LAMBDA e : e.key # "foo()")

\* A corpus where the one current anchor of "foo" is of an ignored spec and the
\* other is a snapshot anchor of a spec that has a current_url.
CorpusIgnoredCurrent ==
    << Entry("foo",   Anchor("dfn",    "old",     "old",   "1", "current",  "u5", TRUE,  <<>>)),
       Entry("foo",   Anchor("dfn",    "css-b",   "css-b", "1", "snapshot", "u6", TRUE,  <<>>)) >>

Corpora == { CorpusFull, CorpusNoArgless, CorpusIgnoredCurrent, <<>> }

\* self.specs: css-a-1 is published as a snapshot only.
SpecData ==
    [s \in {"css-a-1", "css-a-2", "css-b", "old"} |->
        CASE s = "css-a-1" -> [k \in {"snapshot_url"} |-> "https://tr/css-a-1"]
          [] s = "css-b"   -> [k \in {"snapshot_url", "current_url"} |->
                                  IF k = "current_url" THEN "https://ed/css-b" ELSE "https://tr/css-b"]
          [] s = "css-a-2" -> [k \in {"current_url"} |-> "https://ed/css-a-2"]
          [] s = "old"     -> [k \in {"snapshot_url", "current_url"} |->
                                  IF k = "current_url" THEN "https://ed/old" ELSE "https://tr/old"]]

IgnoredSpecData == {"old"}

ReplacedSpecData == { <<"css-a-1", "css-a-2">> }

\* The "for" index of a corpus: each context with the texts that declare it.
ForsOf(corpus) ==
    LET ctxs == UNION { Range(corpus[i].a.for) : i \in 1..Len(corpus) }
        keys(c) == SelectSeq([i \in 1..Len(corpus) |-> corpus[i].key],
                             LAMBDA k : \E i \in 1..Len(corpus) :
                                 corpus[i].key = k /\ c \in Range(corpus[i].a.for))
    IN  [c \in ctxs |-> keys(c)]

(***************************************************************************)
(* The anchor files: one per group, named anchors-<group>.data.            *)
(***************************************************************************)
FileName(group) == Str(Chars("anchors-") \o Chars(group) \o Chars(".data"))

\* The lines of one record of an anchor file.
EncodeEntry(e) ==
    << e.key, e.a.type, e.a.spec, e.a.shortname, e.a.level, e.a.status, e.a.url,
       IF e.a.export THEN "1" ELSE "", IF e.a.normative THEN "1" ELSE "" >>
    \o e.a.for \o << "-" >>

EncodeEntries(entries) == Flatten([i \in 1..Len(entries) |-> EncodeEntry(entries[i])])

\* The files of a corpus: every entry in the file of its key's group.
DiskOf(corpus) ==
    LET groups == { groupFromKey(corpus[i].key) : i \in 1..Len(corpus) }
    IN  [f \in { FileName(g) : g \in groups } |->
            EncodeEntries(SelectSeq(corpus, LAMBDA e : FileName(groupFromKey(e.key)) = f))]

(***************************************************************************)
(* decodeAnchors(linesIter)                                                *)
(***************************************************************************)
\* The "for" lines from position i up to the "-" line: the lines and the position
\* after the "-", or exhausted when the lines end first (StopIteration).
RECURSIVE ReadFors(_, _, _)
ReadFors(lines, i, acc) ==
    IF i > Len(lines) THEN [exhausted |-> TRUE, for |-> acc, next |-> i]
    ELSE IF lines[i] = "-" THEN [exhausted |-> FALSE, for |-> acc, next |-> i + 1]
    ELSE ReadFors(lines, i + 1, Append(acc, lines[i]))

\* The loop of decodeAnchors where a record cut short among its "for" lines is
\* added to the anchors all the same.
RECURSIVE DecodeFromKeepsPartial(_, _, _)
DecodeFromKeepsPartial(lines, i, anchors) ==
    IF i + 8 > Len(lines) THEN anchors
    ELSE LET key  == lines[i]
             fors == ReadFors(lines, i + 9, <<>>)
             a    == [type |-> lines[i + 1], spec |-> lines[i + 2],
                      shortname |-> lines[i + 3], level |-> lines[i + 4],
                      status |-> lines[i + 5], url |-> lines[i + 6],
                      export |-> lines[i + 7] # "", normative |-> lines[i + 8] # "",
                      for |-> fors.for]
             more == DictUpdate(anchors,
                         [k \in {key} |-> Append(DictGet(anchors, key, <<>>), a)])
         IN  IF fors.exhausted THEN more
             ELSE DecodeFromKeepsPartial(lines, fors.next, more)

\* The loop of decodeAnchors from position i with the anchors decoded so far.
RECURSIVE DecodeFrom(_, _, _)
DecodeFrom(lines, i, anchors) ==
    IF i + 8 > Len(lines) THEN anchors
    ELSE LET key  == lines[i]
             fors == ReadFors(lines, i + 9, <<>>)
             a    == [type |-> lines[i + 1], spec |-> lines[i + 2],
                      shortname |-> lines[i + 3], level |-> lines[i + 4],
                      status |-> lines[i + 5], url |-> lines[i + 6],
                      export |-> lines[i + 7] # "", normative |-> lines[i + 8] # "",
                      for |-> fors.for]
         IN  IF fors.exhausted THEN anchors
             ELSE DecodeFrom(lines, fors.next,
                             DictUpdate(anchors,
                                 [k \in {key} |-> Append(DictGet(anchors, key, <<>>), a)]))

decodeAnchors(lines) == DecodeFrom(lines, 1, EmptyDict)

\* A line whose bytes are not valid UTF-8.
BadUtf8 == "<0xFF>"

\* Whether decodeAnchors raises on the lines from position i: the key of a record
\* (line 247) is the one line that is decoded, and the UnicodeDecodeError of a
\* key that is not UTF-8 is not the StopIteration that line 265 catches.
RECURSIVE DecodeRaisesFrom(_, _)
DecodeRaisesFrom(lines, i) ==
    IF i > Len(lines) THEN FALSE
    ELSE IF lines[i] = BadUtf8 THEN TRUE
    ELSE IF i + 8 > Len(lines) THEN FALSE
    ELSE LET fors == ReadFors(lines, i + 9, <<>>)
         IN  IF fors.exhausted THEN FALSE ELSE DecodeRaisesFrom(lines, fors.next)

decodeRaises(lines) == DecodeRaisesFrom(lines, 1)

\* The dict a corpus makes when it is held whole in memory.
RefsOf(corpus) == decodeAnchors(EncodeEntries(corpus))

(***************************************************************************)
(* The state: one RefSource object and the anchor files it reads.          *)
(***************************************************************************)
VARIABLES
    source,              \* self.source
    refs,                \* self._refs: linking text -> anchors
    methods,             \* self.methods: argless signature -> full signature -> data
    fors,                \* self.fors: for value -> linking texts
    specs,               \* self.specs
    ignoredSpecs,        \* self.ignoredSpecs
    replacedSpecs,       \* self.replacedSpecs
    loadedAnchorGroups,  \* self._loadedAnchorGroups
    disk,                \* the anchor files: file name -> lines
    reads,               \* how many times each anchor file was opened
    errors,              \* the messages given to linkerror
    pc,                  \* where the queryRefs call in progress stands
    call                 \* the queryRefs call in progress: arguments, passes, result

vars == << source, refs, methods, fors, specs, ignoredSpecs, replacedSpecs,
           loadedAnchorGroups, disk, reads, errors, pc, call >>

\* RefSource.lazyLoadedSources
lazyLoadedSources == {"foreign"}

Groups == {"fo", "ba"}

FileNames == { FileName(g) : g \in Groups }

\* The object and its environment as one value, for the operators below.  fault
\* is set while an exception raised while reading an anchor file propagates.
Store ==
    [source |-> source, refs |-> refs, methods |-> methods, fors |-> fors,
     specs |-> specs, ignoredSpecs |-> ignoredSpecs, replacedSpecs |-> replacedSpecs,
     loaded |-> loadedAnchorGroups, disk |-> disk, reads |-> reads, errors |-> errors,
     fault |-> FALSE]

Install(st) ==
    /\ source' = st.source
    /\ refs' = st.refs
    /\ methods' = st.methods
    /\ fors' = st.fors
    /\ specs' = st.specs
    /\ ignoredSpecs' = st.ignoredSpecs
    /\ replacedSpecs' = st.replacedSpecs
    /\ loadedAnchorGroups' = st.loaded
    /\ disk' = st.disk
    /\ reads' = st.reads
    /\ errors' = st.errors

\* config.retrieveDataFile(name, okayToFail=True): the lines of the file, none when
\* the file is missing; the read is counted.
retrieveDataFile(st, file) ==
    [st  |-> [st EXCEPT !.reads[file] = @ + 1],
     out |-> IF file \in DOMAIN st.disk THEN st.disk[file] ELSE <<>>]

\* loadGroup that assigns the file's anchors to self._refs instead of merging them.
loadGroupReplaces(st, file, group) ==
    LET fh == retrieveDataFile(st, file)
    IN  IF decodeRaises(fh.out) THEN [fh.st EXCEPT !.fault = TRUE]
        ELSE [fh.st EXCEPT !.refs = decodeAnchors(fh.out),
                           !.loaded = @ \cup {group}]

\* loadGroup without line 54 (line 72): the group is not marked loaded.
loadGroupUnmarked(st, file, group) ==
    LET fh == retrieveDataFile(st, file)
    IN  [fh.st EXCEPT !.refs = DictUpdate(@, decodeAnchors(fh.out))]

\* Lines 52-54 and 70-72: read the file, merge its anchors into self._refs, mark
\* the group loaded.  When decodeAnchors raises, neither the update nor the add
\* runs and the exception leaves the with block.
loadGroup(st, file, group) ==
    CHOOSE st2 \in { IF decodeRaises(fh.out) THEN [fh.st EXCEPT !.fault = TRUE]
                     ELSE [fh.st EXCEPT !.refs = DictUpdate(@, decodeAnchors(fh.out)),
                                        !.loaded = @ \cup {group}] :
                     fh \in {retrieveDataFile(st, file)} } : TRUE

\* fetchRefs without lines 41-42: a resident key is not returned at once.
fetchRefsNoResident(st, key) ==
    IF st.source \notin lazyLoadedSources THEN [st |-> st, out |-> <<>>]
    ELSE LET group == groupFromKey(key)
         IN  IF group \in st.loaded THEN [st |-> st, out |-> <<>>]
             ELSE LET st2 == loadGroup(st, FileName(group), group)
                  IN  [st |-> st2, out |-> DictGet(st2.refs, key, <<>>)]

\* RefSource.fetchRefs(key): the store afterwards and the anchors returned.
fetchRefs(st, key) ==
    IF key \in DOMAIN st.refs THEN [st |-> st, out |-> st.refs[key]]
    ELSE IF st.source \notin lazyLoadedSources THEN [st |-> st, out |-> <<>>]
    ELSE LET group == groupFromKey(key)
         IN  IF group \in st.loaded THEN [st |-> st, out |-> <<>>]
             ELSE CHOOSE r \in { [st |-> st2,
                                   out |-> IF st2.fault THEN <<>>
                                           ELSE DictGet(st2.refs, key, <<>>)] :
                                  st2 \in {loadGroup(st, FileName(group), group)} } : TRUE

\* The order in which a dict of linking texts is iterated.
TextOrder == <<"Foo", "foo", "foo()", "foo(bar, baz)", "bar">>

\* dict.items() of self._refs
Items(d) ==
    LET ks == SelectSeq(TextOrder, LAMBDA k : k \in DOMAIN d)
    IN  [i \in 1..Len(ks) |-> <<ks[i], d[ks[i]]>>]

\* The order in which os.walk lists the anchor files.
FileOrder == <<"anchors-ba.data", "anchors-fo.data">>

\* re.match("anchors-(.{2})", file).group(1)
GroupOfFile(file) ==
    LET cs == Chars(file)
    IN  IF Len(cs) >= 10 /\ SubSeq(cs, 1, 8) = Chars("anchors-")
        THEN Str(SubSeq(cs, 9, 10))
        ELSE None

\* The loop of lines 64-72 over the files still to visit; an exception ends it.
RECURSIVE LoadFiles(_, _)
LoadFiles(st, files) ==
    IF files = <<>> THEN st
    ELSE LET group == GroupOfFile(Head(files))
         IN  IF group \in st.loaded THEN LoadFiles(st, Tail(files))
             ELSE CHOOSE r \in { IF st2.fault THEN st2 ELSE LoadFiles(st2, Tail(files)) :
                                  st2 \in {loadGroup(st, Head(files), group)} } : TRUE

\* RefSource.fetchAllRefs()
fetchAllRefs(st) ==
    IF st.source \notin lazyLoadedSources THEN [st |-> st, out |-> Items(st.refs)]
    ELSE LET st2 == LoadFiles(st, SelectSeq(FileOrder, LAMBDA f : f \in DOMAIN st.disk))
         IN  [st |-> st2, out |-> Items(st2.refs)]

(***************************************************************************)
(* RefSource.addMethodVariants(methodSig, forVals, shortname)              *)
(***************************************************************************)
FirstIndex(cs, c) == CHOOSE i \in 1..Len(cs) : cs[i] = c /\ \A j \in 1..(i - 1) : cs[j] # c

LastIndex(cs, c) == CHOOSE i \in 1..Len(cs) : cs[i] = c /\ \A j \in (i + 1)..Len(cs) : cs[j] # c

\* re.match(r"([^(]+)\((.*)\)", methodSig): the two groups, if it matches.  The name is
\* everything before the first "(", and is not empty; the arguments run to the
\* last ")".
MatchMethodSig(methodSig) ==
    LET cs == Chars(methodSig)
        p  == FirstIndex(cs, "(")
    IN  IF "(" \in Range(cs) /\ p >= 2 /\ (\E q \in (p + 1)..Len(cs) : cs[q] = ")")
        THEN [matched |-> TRUE, name |-> SubSeq(cs, 1, p - 1),
              args |-> SubSeq(cs, p + 1, LastIndex(cs, ")") - 1)]
        ELSE [matched |-> FALSE]

\* str.split(","), on characters.
RECURSIVE SplitCommas(_)
SplitCommas(cs) ==
    IF "," \notin Range(cs) THEN <<cs>>
    ELSE LET p == FirstIndex(cs, ",")
         IN  <<SubSeq(cs, 1, p - 1)>> \o SplitCommas(SubSeq(cs, p + 1, Len(cs)))

\* str.strip(), on characters.
RECURSIVE StripChars(_)
StripChars(cs) ==
    IF cs # <<>> /\ Head(cs) = " " THEN StripChars(Tail(cs))
    ELSE IF cs # <<>> /\ cs[Len(cs)] = " " THEN StripChars(SubSeq(cs, 1, Len(cs) - 1))
    ELSE cs

\* addMethodVariants whose line 239 adds only the contexts not yet in the list.
addMethodVariantsDedup(st, methodSig, forVals, shortname) ==
    LET match == MatchMethodSig(methodSig)
    IN  IF ~match.matched THEN st
        ELSE LET arglessMethodSig == Str(match.name \o <<"(", ")">>)
                 pieces   == SplitCommas(match.args)
                 args     == [i \in 1..Len(pieces) |-> Str(StripChars(pieces[i]))]
                 variants == DictGet(st.methods, arglessMethodSig, EmptyDict)
                 entry    == IF methodSig \in DOMAIN variants THEN variants[methodSig]
                             ELSE [args |-> args, for |-> <<>>, shortname |-> shortname]
                 entry2   == [entry EXCEPT !.for =
                                 @ \o SelectSeq(forVals, LAMBDA c : c \notin Range(@))]
             IN  [st EXCEPT !.methods =
                     DictUpdate(@, [k \in {arglessMethodSig} |->
                         DictUpdate(variants, [m \in {methodSig} |-> entry2])])]

\* RefSource.addMethodVariants(methodSig, forVals, shortname)
addMethodVariants(st, methodSig, forVals, shortname) ==
    LET match == MatchMethodSig(methodSig)
    IN  IF ~match.matched THEN st
        ELSE LET arglessMethodSig == Str(match.name \o <<"(", ")">>)
                 pieces   == SplitCommas(match.args)
                 args     == [i \in 1..Len(pieces) |-> Str(StripChars(pieces[i]))]
                 variants == DictGet(st.methods, arglessMethodSig, EmptyDict)
                 entry    == IF methodSig \in DOMAIN variants THEN variants[methodSig]
                             ELSE [args |-> args, for |-> <<>>, shortname |-> shortname]
                 entry2   == [entry EXCEPT !.for = @ \o forVals]
             IN  [st EXCEPT !.methods =
                     DictUpdate(@, [k \in {arglessMethodSig} |->
                         DictUpdate(variants, [m \in {methodSig} |-> entry2])])]

(***************************************************************************)
(* RefSource._queryRefs.  A pass is the store, the arguments exact and     *)
(* error it was called with, the candidate refs, and how it ended:         *)
(* returned is set by a return statement, with error the second value      *)
(* returned, and raised by an exception.  Every stage leaves a pass that   *)
(* has ended as it is, which is the early return of the source.  The trail *)
(* lists the steps that ran, each with the candidates it left.             *)
(***************************************************************************)
Truthy(v) == v # None /\ v # ""

Ended(p) == p.returned \/ p.raised

\* return refs, stage
Return(p, result, stage) == [p EXCEPT !.refs = result, !.error = stage, !.returned = TRUE]

\* A step that leaves cands as the candidates.
Step(p, cands, step) ==
    [p EXCEPT !.refs = cands, !.trail = Append(@, [step |-> step, refs |-> cands])]

\* "if not refs: return refs, stage" after a filter gave cands.
Narrow(p, cands, stage) ==
    IF cands = <<>> THEN Return(Step(p, cands, stage), <<>>, stage) ELSE Step(p, cands, stage)

\* textRefsIterator(texts): fetchRefs for each text in turn.
RECURSIVE textRefsIterator(_, _)
textRefsIterator(st, texts) ==
    IF texts = <<>> THEN [st |-> st, out |-> <<>>]
    ELSE LET f    == fetchRefs(st, Head(texts))
             rest == textRefsIterator(f.st, Tail(texts))
         IN  [st  |-> rest.st,
              out |-> [i \in 1..Len(f.out) |-> RefWrapper(Head(texts), f.out[i])] \o rest.out]

\* forRefsIterator(targetFors); reading self.fors[for_] adds a missing for_.
RECURSIVE forRefsIterator(_, _)
forRefsIterator(st, targetFors) ==
    IF targetFors = <<>> THEN [st |-> st, out |-> <<>>]
    ELSE LET for_  == Head(targetFors)
             st1   == IF for_ \in DOMAIN st.fors THEN st
                      ELSE [st EXCEPT !.fors = DictUpdate(@, [k \in {for_} |-> <<>>])]
             these == textRefsIterator(st1, st1.fors[for_])
             rest  == forRefsIterator(these.st, Tail(targetFors))
         IN  [st |-> rest.st, out |-> these.out \o rest.out]

\* allRefsIterator()
allRefsIterator(st) ==
    LET all == fetchAllRefs(st)
    IN  [st  |-> all.st,
         out |-> Flatten([i \in 1..Len(all.out) |->
                    [j \in 1..Len(all.out[i][2]) |->
                        RefWrapper(all.out[i][1], all.out[i][2][j])]])]

\* dict.keys() of self.methods[text]
MethodKeys(st, text) == SelectSeq(TextOrder, LAMBDA k : k \in DOMAIN st.methods[text])

\* Lines 110-114 without the method variants of lines 111-112.
textsToSearchNoMethods(st, text, linkType) ==
    LET t1 == linkTextVariations(text, linkType)
    IN  IF (linkType = None \/ linkType \in lowercaseTypes) /\ Lower(text) # text
        THEN t1 \o [i \in 1..Len(t1) |-> Lower(t1[i])]
        ELSE t1

\* Lines 110-114: the texts a non-exact pass searches.
textsToSearch(st, text, linkType) ==
    LET t1 == linkTextVariations(text, linkType)
        t2 == IF EndsWithParens(text) /\ text \in DOMAIN st.methods
              THEN t1 \o MethodKeys(st, text) ELSE t1
    IN  IF (linkType = None \/ linkType \in lowercaseTypes) /\ Lower(text) # text
        THEN t2 \o [i \in 1..Len(t2) |-> Lower(t2[i])]
        ELSE t2

\* Lines 105-121 without the return of lines 120-121.
seedStageNoReturn(p, q) ==
    LET got == IF Truthy(q.text)
               THEN IF p.exact THEN textRefsIterator(p.st, <<q.text>>)
                    ELSE textRefsIterator(p.st, textsToSearch(p.st, q.text, q.linkType))
               ELSE IF Truthy(q.linkFor) THEN forRefsIterator(p.st, <<q.linkFor>>)
               ELSE allRefsIterator(p.st)
    IN  Step([p EXCEPT !.st = got.st], got.out, "text")

\* Lines 105-121 without the exact branch of lines 107-108.
seedStageVariations(p, q) ==
    LET got == IF Truthy(q.text)
               THEN textRefsIterator(p.st, textsToSearch(p.st, q.text, q.linkType))
               ELSE IF Truthy(q.linkFor) THEN forRefsIterator(p.st, <<q.linkFor>>)
               ELSE allRefsIterator(p.st)
    IN  Narrow([p EXCEPT !.st = got.st], got.out, "text")

\* Lines 105-121: the initial list of refs.
seedStage(p, q) ==
    LET got == IF Truthy(q.text)
               THEN IF p.exact THEN textRefsIterator(p.st, <<q.text>>)
                    ELSE textRefsIterator(p.st, textsToSearch(p.st, q.text, q.linkType))
               ELSE IF Truthy(q.linkFor) THEN forRefsIterator(p.st, <<q.linkFor>>)
               ELSE allRefsIterator(p.st)
    IN  Narrow([p EXCEPT !.st = got.st], got.out, "text")

\* Lines 123-134.  linkerror is called on an unknown link type when error is set.
typeStage(p, q) ==
    IF Ended(p) THEN p
    ELSE IF ~Truthy(q.linkType) THEN Narrow(p, p.refs, "type")
    ELSE IF q.linkType \in dfnTypes
         THEN Narrow(p, SelectSeq(p.refs, LAMBDA x : x.ref.type \in {q.linkType}), "type")
    ELSE IF q.linkType \in DOMAIN linkTypeToDfnType
         THEN Narrow(p, SelectSeq(p.refs,
                        LAMBDA x : x.ref.type \in linkTypeToDfnType[q.linkType]), "type")
    ELSE LET p1 == IF p.errorArg
                   THEN [p EXCEPT !.st.errors = Append(@, <<"Unknown link type", q.linkType>>)]
                   ELSE p
         IN  Return(Step(p1, <<>>, "type"), <<>>, "type")

\* Lines 136-139 without the return of lines 138-139.
exportStageNoReturn(p, q) ==
    IF Ended(p) THEN p
    ELSE IF q.export # <<>>
         THEN Step(p, SelectSeq(p.refs, LAMBDA x : x.ref.export = q.export[1]), "export")
    ELSE Step(p, p.refs, "export")

\* Lines 136-139.
exportStage(p, q) ==
    IF Ended(p) THEN p
    ELSE IF q.export # <<>>
         THEN Narrow(p, SelectSeq(p.refs, LAMBDA x : x.ref.export = q.export[1]), "export")
    ELSE Narrow(p, p.refs, "export")

\* Lines 141-144.
specStage(p, q) ==
    IF Ended(p) THEN p
    ELSE IF Truthy(q.spec)
         THEN Narrow(p, SelectSeq(p.refs,
                        LAMBDA x : x.ref.spec = q.spec \/ x.ref.shortname = q.spec), "spec")
    ELSE Narrow(p, p.refs, "spec")

\* Lines 146-151.
forStage(p, q) ==
    IF Ended(p) THEN p
    ELSE IF q.linkFor = "/"
         THEN Narrow(p, SelectSeq(p.refs, LAMBDA x : x.ref.for = <<>>), "for")
    ELSE IF Truthy(q.linkFor)
         THEN Narrow(p, SelectSeq(p.refs, LAMBDA x : q.linkFor \in Range(x.ref.for)), "for")
    ELSE Narrow(p, p.refs, "for")

\* self.specs.get(spec, {}).get('current_url')
CurrentUrl(st, spec) ==
    IF spec \in DOMAIN st.specs /\ "current_url" \in DOMAIN st.specs[spec]
    THEN st.specs[spec]["current_url"]
    ELSE None

\* filterByStatus without the raise of lines 167-168: any other status is matched
\* like a link status.
filterByStatusAnyStatus(st, cands, status) ==
    IF status \in refStatus
    THEN IF status = "current"
         THEN [raised |-> FALSE,
               out |-> SelectSeq(cands, LAMBDA r :
                          r.ref.status = "current"
                          \/ (r.ref.status = "snapshot" /\ CurrentUrl(st, r.ref.spec) = None))]
         ELSE LET snapshotSpecs == { cands[i].ref.spec :
                                       i \in { j \in 1..Len(cands) : cands[j].ref.status = "snapshot" } }
              IN  [raised |-> FALSE,
                   out |-> SelectSeq(cands, LAMBDA r :
                              r.ref.status = "snapshot"
                              \/ (r.ref.status = "current" /\ r.ref.spec \notin snapshotSpecs))]
    ELSE [raised |-> FALSE, out |-> SelectSeq(cands, LAMBDA x : x.ref.status = status)]

\* filterByStatus whose "current" branch keeps the current refs only.
filterByStatusStrict(st, cands, status) ==
    IF status \in linkStatuses
    THEN [raised |-> FALSE, out |-> SelectSeq(cands, LAMBDA x : x.ref.status = status)]
    ELSE [raised |-> TRUE, out |-> <<>>]

\* filterByStatus(refs, status): the refs kept, or raised for a status that is
\* neither a ref status nor a link status.
filterByStatus(st, cands, status) ==
    IF status \in refStatus
    THEN IF status = "current"
         THEN [raised |-> FALSE,
               out |-> SelectSeq(cands, LAMBDA r :
                          r.ref.status = "current"
                          \/ (r.ref.status = "snapshot" /\ CurrentUrl(st, r.ref.spec) = None))]
         ELSE LET snapshotSpecs == { cands[i].ref.spec :
                                       i \in { j \in 1..Len(cands) : cands[j].ref.status = "snapshot" } }
              IN  [raised |-> FALSE,
                   out |-> SelectSeq(cands, LAMBDA r :
                              r.ref.status = "snapshot"
                              \/ (r.ref.status = "current" /\ r.ref.spec \notin snapshotSpecs))]
    ELSE IF status \in linkStatuses
         THEN [raised |-> FALSE, out |-> SelectSeq(cands, LAMBDA x : x.ref.status = status)]
    ELSE [raised |-> TRUE, out |-> <<>>]

\* Lines 169-172.
statusStage(p, q) ==
    IF Ended(p) THEN p
    ELSE IF Truthy(q.status)
         THEN LET f == filterByStatus(p.st, p.refs, q.status)
              IN  IF f.raised THEN [p EXCEPT !.raised = TRUE]
                  ELSE Narrow(p, f.out, "status")
    ELSE Narrow(p, p.refs, "status")

\* Lines 174-177 with the hint as a hard filter: the narrowed list is taken even
\* when empty, and the pass fails at "status".
statusHintStageHard(p, q) ==
    IF Ended(p) THEN p
    ELSE IF q.status = None /\ Truthy(q.statusHint)
         THEN LET f == filterByStatus(p.st, p.refs, q.statusHint)
              IN  IF f.raised THEN [p EXCEPT !.raised = TRUE]
                  ELSE IF f.out # <<>> THEN Step(p, f.out, "statusHint")
                  ELSE Return(Step(p, <<>>, "statusHint"), <<>>, "status")
    ELSE Step(p, p.refs, "statusHint")

\* Lines 174-177.
statusHintStage(p, q) ==
    IF Ended(p) THEN p
    ELSE IF q.status = None /\ Truthy(q.statusHint)
         THEN LET f == filterByStatus(p.st, p.refs, q.statusHint)
              IN  IF f.raised THEN [p EXCEPT !.raised = TRUE]
                  ELSE IF f.out # <<>> THEN Step(p, f.out, "statusHint")
                  ELSE Step(p, p.refs, "statusHint")
    ELSE Step(p, p.refs, "statusHint")

\* Lines 179-184 without "and not spec".
obsoleteStageAlways(p, q) ==
    IF Ended(p) THEN p
    ELSE IF q.ignoreObsoletes
         THEN Narrow(p, filterObsoletes(p.refs, p.st.replacedSpecs, p.st.ignoredSpecs),
                     "ignored-specs")
    ELSE Narrow(p, p.refs, "ignored-specs")

\* Lines 179-184.
obsoleteStage(p, q) ==
    IF Ended(p) THEN p
    ELSE IF q.ignoreObsoletes /\ ~Truthy(q.spec)
         THEN Narrow(p, filterObsoletes(p.refs, p.st.replacedSpecs, p.st.ignoredSpecs),
                     "ignored-specs")
    ELSE Narrow(p, p.refs, "ignored-specs")

\* Lines 186-191 with the hint treated like linkFor: a hint that matches nothing
\* fails the pass at "for".
forHintStageAsFilter(p, q) ==
    IF Ended(p) THEN p
    ELSE IF Truthy(q.linkForHint)
         THEN LET tempRefs == SelectSeq(p.refs, LAMBDA x : q.linkForHint \in Range(x.ref.for))
              IN  IF tempRefs # <<>> THEN Step(p, tempRefs, "linkForHint")
                  ELSE Return(Step(p, <<>>, "linkForHint"), <<>>, "for")
    ELSE Step(p, p.refs, "linkForHint")

\* Lines 186-191 with the hint as a hard filter: the narrowed list is taken even when empty.
forHintStageHard(p, q) ==
    IF Ended(p) THEN p
    ELSE IF Truthy(q.linkForHint)
         THEN Step(p, SelectSeq(p.refs, LAMBDA x : q.linkForHint \in Range(x.ref.for)),
                   "linkForHint")
    ELSE Step(p, p.refs, "linkForHint")

\* Lines 186-191.
forHintStage(p, q) ==
    IF Ended(p) THEN p
    ELSE IF Truthy(q.linkForHint)
         THEN LET tempRefs == SelectSeq(p.refs, LAMBDA x : q.linkForHint \in Range(x.ref.for))
              IN  IF tempRefs # <<>> THEN Step(p, tempRefs, "linkForHint")
                  ELSE Step(p, p.refs, "linkForHint")
    ELSE Step(p, p.refs, "linkForHint")

\* Lines 193-201 keeping the last ref of each url instead of the first.
dedupUrlsLast(cands) ==
    LET keep == { i \in 1..Len(cands) :
                    \A j \in (i + 1)..Len(cands) : cands[j].ref.url # cands[i].ref.url }
        RECURSIVE Pick(_)
        Pick(i) == IF i > Len(cands) THEN <<>>
                   ELSE (IF i \in keep THEN <<cands[i]>> ELSE <<>>) \o Pick(i + 1)
    IN  Pick(1)

\* Lines 193-201: the refs whose url no earlier ref has.
dedupUrls(cands) ==
    LET keep == { i \in 1..Len(cands) : \A j \in 1..(i - 1) : cands[j].ref.url # cands[i].ref.url }
        RECURSIVE Pick(_)
        Pick(i) == IF i > Len(cands) THEN <<>>
                   ELSE (IF i \in keep THEN <<cands[i]>> ELSE <<>>) \o Pick(i + 1)
    IN  Pick(1)

dedupStage(p) == IF Ended(p) THEN p ELSE Step(p, dedupUrls(p.refs), "dedup")

\* The shortnames of the refs, each once, in the order the dict of line 207 gives
\* them: the order in which they first come.
Shortnames(cands) ==
    LET firsts == SelectSeq([i \in 1..Len(cands) |-> i],
                      LAMBDA i : \A j \in 1..(i - 1) : cands[j].ref.shortname # cands[i].ref.shortname)
    IN  [k \in 1..Len(firsts) |-> cands[firsts[k]].ref.shortname]

\* Lines 203-222 without the snapshot branch of lines 215-218.
latestLevelsAnyStatus(cands, status) ==
    LET names == Shortnames(cands)
        ofName(n) == SelectSeq(cands, LAMBDA r : r.ref.shortname = n)
        atMax(rs) == LET maxLevel == StrMax({ rs[i].ref.level : i \in 1..Len(rs) })
                     IN  SelectSeq(rs, LAMBDA r : r.ref.level = maxLevel)
    IN  Flatten([k \in 1..Len(names) |-> atMax(ofName(names[k]))])

\* Lines 203-222: for each shortname the refs of its latest level, or of its latest
\* snapshot level when the status asked for is "snapshot" and it has snapshot refs.
latestLevels(cands, status) ==
    LET names == Shortnames(cands)
        ofName(n) == SelectSeq(cands, LAMBDA r : r.ref.shortname = n)
        snapsOf(n) == SelectSeq(cands, LAMBDA r :
                          r.ref.shortname = n /\ status = r.ref.status /\ r.ref.status = "snapshot")
        atMax(rs) == LET maxLevel == StrMax({ rs[i].ref.level : i \in 1..Len(rs) })
                     IN  SelectSeq(rs, LAMBDA r : r.ref.level = maxLevel)
        pick(n) == IF status = "snapshot" /\ snapsOf(n) # <<>>
                   THEN atMax(snapsOf(n))
                   ELSE atMax(ofName(n))
    IN  Flatten([k \in 1..Len(names) |-> pick(names[k])])

levelStage(p, q) ==
    IF Ended(p) THEN p
    ELSE Return(Step(p, latestLevels(p.refs, q.status), "levels"),
                latestLevels(p.refs, q.status), None)

NewPass(st, exact, error) ==
    [st |-> st, exact |-> exact, errorArg |-> error, refs |-> <<>>, error |-> None,
     returned |-> FALSE, raised |-> FALSE, trail |-> <<>>]

_queryRefs(st, q, exact, error) ==
    levelStage(
      dedupStage(
        forHintStage(
          obsoleteStage(
            statusHintStage(
              statusStage(
                forStage(
                  specStage(
                    exportStage(
                      typeStage(
                        seedStage(NewPass(st, exact, error), q),
                        q),
                      q),
                    q),
                  q),
                q),
              q),
            q),
          q)),
      q)

(***************************************************************************)
(* RefSource.queryRefs, in two steps: the exact pass of line 76, then      *)
(* lines 77-80, which return its result or that of a second pass.          *)
(***************************************************************************)
\* What a caller of _queryRefs sees of a pass, with the arguments it was given.
PassRecord(p) ==
    [exact |-> p.exact, errorArg |-> p.errorArg, refs |-> p.refs, error |-> p.error,
     raised |-> p.raised, trail |-> p.trail]

\* Line 76.
queryRefsFirst(st, q) == _queryRefs(st, q, TRUE, FALSE)

\* Line 77 without "and not exact".
RetriesAlways(q, first) == first.error # None

\* Line 77: whether the second pass runs.
Retries(q, first) == first.error # None /\ ~q.exact

\* Line 78.
queryRefsSecond(st, q) == _queryRefs(st, q, FALSE, FALSE)

(***************************************************************************)
(* Bounds and inputs.                                                      *)
(***************************************************************************)
\* The most arguments a query sets among those that default to None.
MaxQualifiers == 1

\* The longest "for" list addMethodVariants builds.
MaxForLen == 1

QueryTexts == {None, "Foo", "foo()"}
QuerySpecs == {None, "css-a", "old"}
QueryLinkTypes == {None, "dfn", "idl", "bogus"}
QueryLinkFors == {None, "/", "Ifc"}
QueryLinkForHints == {None, "Ifc"}
QueryStatuses == {None, "current", "snapshot", "local", "bogus"}
QueryStatusHints == {None, "current", "snapshot", "local"}
QueryExports == {<<>>, <<TRUE>>, <<FALSE>>}

Count(b) == IF b THEN 1 ELSE 0

NumQualifiers(q) ==
    Count(q.spec # None) + Count(q.linkType # None) + Count(q.linkFor # None)
    + Count(q.linkForHint # None) + Count(q.status # None) + Count(q.statusHint # None)
    + Count(q.export # <<>>)

Queries ==
    { q \in [text : QueryTexts, spec : QuerySpecs, linkType : QueryLinkTypes,
             linkFor : QueryLinkFors, linkForHint : QueryLinkForHints,
             status : QueryStatuses, statusHint : QueryStatusHints,
             export : QueryExports, ignoreObsoletes : BOOLEAN, exact : BOOLEAN] :
        NumQualifiers(q) <= MaxQualifiers }

FetchKeys == {"Foo", "foo", "foo()", "foo(bar, baz)", "bar"}

MethodSigs == {"foo(bar, baz)", "foo"}

NoCall == [q |-> None]

(***************************************************************************)
(* The specification.                                                      *)
(***************************************************************************)
Init ==
    /\ source \in {"foreign", "local"}
    /\ \E corpus \in Corpora :
          /\ refs = IF source \in lazyLoadedSources THEN EmptyDict ELSE RefsOf(corpus)
          /\ disk = IF source \in lazyLoadedSources THEN DiskOf(corpus) ELSE DiskOf(<<>>)
          /\ fors = ForsOf(corpus)
    /\ methods = EmptyDict
    /\ specs = SpecData
    /\ ignoredSpecs = IgnoredSpecData
    /\ replacedSpecs = ReplacedSpecData
    /\ loadedAnchorGroups = {}
    /\ reads = [f \in FileNames |-> 0]
    /\ errors = <<>>
    /\ pc = "idle"
    /\ call = NoCall

FetchRefs(key) ==
    /\ pc = "idle"
    /\ \E r \in {fetchRefs(Store, key)} : Install(r.st)
    /\ UNCHANGED <<pc, call>>

FetchAllRefs ==
    /\ pc = "idle"
    /\ \E r \in {fetchAllRefs(Store)} : Install(r.st)
    /\ UNCHANGED <<pc, call>>

AddMethodVariants(methodSig, forVals, shortname) ==
    /\ pc = "idle"
    /\ \E st2 \in {addMethodVariants(Store, methodSig, forVals, shortname)} :
          /\ \A a \in DOMAIN st2.methods : \A m \in DOMAIN st2.methods[a] :
                Len(st2.methods[a][m].for) <= MaxForLen
          /\ Install(st2)
    /\ UNCHANGED <<pc, call>>

QueryExact(q) ==
    /\ pc = "idle"
    /\ \E first \in {queryRefsFirst(Store, q)} :
          /\ Install(first.st)
          /\ call' = [q |-> q, passes |-> <<PassRecord(first)>>]
    /\ pc' = "exact"

QueryReturn ==
    /\ pc = "exact"
    /\ IF ~call.passes[1].raised /\ Retries(call.q, call.passes[1])
       THEN \E second \in {queryRefsSecond(Store, call.q)} :
               /\ Install(second.st)
               /\ call' = [q |-> call.q,
                           passes |-> Append(call.passes, PassRecord(second)),
                           result |-> [raised |-> second.raised, refs |-> second.refs,
                                       error |-> second.error]]
       ELSE /\ UNCHANGED << source, refs, methods, fors, specs, ignoredSpecs, replacedSpecs,
                            loadedAnchorGroups, disk, reads, errors >>
            /\ call' = [q |-> call.q, passes |-> call.passes,
                        result |-> [raised |-> call.passes[1].raised,
                                    refs |-> call.passes[1].refs,
                                    error |-> call.passes[1].error]]
    /\ pc' = "returned"

QueryDone ==
    /\ pc = "returned"
    /\ pc' = "idle"
    /\ call' = NoCall
    /\ UNCHANGED << source, refs, methods, fors, specs, ignoredSpecs, replacedSpecs,
                    loadedAnchorGroups, disk, reads, errors >>

Next ==
    \/ \E key \in FetchKeys : FetchRefs(key)
    \/ FetchAllRefs
    \/ \E methodSig \in MethodSigs, forVals \in {<<"Ifc">>}, shortname \in {"dom"} :
          AddMethodVariants(methodSig, forVals, shortname)
    \/ \E q \in Queries : QueryExact(q)
    \/ QueryReturn
    \/ QueryDone

Spec == Init /\ [][Next]_vars

(***************************************************************************)
(* Properties.                                                             *)
(***************************************************************************)
Lazy == source \in lazyLoadedSources

\* C1: on a lazy-loaded corpus every anchor file is read at most once, and no step
\* (fetchRefs, fetchAllRefs or a pass of queryRefs) reads the file of a group that
\* is already in the loaded-groups set.
C1_GroupFileReadOnce ==
    [][\A g \in Groups :
          /\ reads'[FileName(g)] <= 1
          /\ g \in loadedAnchorGroups => reads'[FileName(g)] = reads[FileName(g)]]_vars

\* A non-exact query for "Foo" has returned after two passes, each of which asked
\* for the absent key "Foo" of group "fo", and both files were read once.
C1_Witness ==
    /\ Lazy
    /\ pc = "returned"
    /\ call.q.text = "Foo"
    /\ Len(call.passes) = 2
    /\ loadedAnchorGroups = Groups
    /\ \A g \in Groups : reads[FileName(g)] = 1

\* C2: in every state in which a call can be made and for every key, fetchRefs
\* called twice in a row returns equal anchor lists.
C2_FetchRefsIdempotent ==
    pc = "idle" =>
        \A key \in FetchKeys :
            fetchRefs(fetchRefs(Store, key).st, key).out = fetchRefs(Store, key).out

\* Group "fo" has been loaded lazily and holds "foo"; a fetch of "bar" would load
\* group "ba" and return its anchor.
C2_Witness ==
    /\ Lazy
    /\ pc = "idle"
    /\ loadedAnchorGroups = {"fo"}
    /\ DictGet(refs, "foo", <<>>) # <<>>
    /\ "bar" \notin DOMAIN refs
    /\ fetchRefs(Store, "bar").out # <<>>
    /\ fetchRefs(Store, "bar").st.loaded = Groups

\* The pass whose result queryRefs returned, and the passes of the call.
Final == call.passes[Len(call.passes)]

Succeeded == pc = "returned" /\ ~call.result.raised /\ call.result.error = None

\* The candidates a step of a pass left.
HasStep(p, step) == \E i \in 1..Len(p.trail) : p.trail[i].step = step

TrailRefs(p, step) == p.trail[CHOOSE i \in 1..Len(p.trail) : p.trail[i].step = step].refs

\* The stages that can fail, in order.
StageOrder == <<"text", "type", "export", "spec", "for", "status", "ignored-specs">>

\* The steps of a pass that are stages.
StageTrail(p) == SelectSeq(p.trail, LAMBDA e : e.step \in Range(StageOrder))

\* C3: queryRefs runs an exact pass first; it returns that pass's result when the
\* pass succeeds or exact was requested, and otherwise runs one non-exact pass and
\* returns its result.  No non-exact pass runs without a failed exact pass before.
C3_ExactPassFirst ==
    /\ pc = "exact" => Len(call.passes) = 1 /\ call.passes[1].exact
    /\ pc = "returned" =>
          /\ call.passes[1].exact
          /\ Len(call.passes) \in {1, 2}
          /\ Len(call.passes) = 2 <=>
                (~call.passes[1].raised /\ call.passes[1].error # None /\ ~call.q.exact)
          /\ Len(call.passes) = 2 => ~call.passes[2].exact
          /\ call.result = [raised |-> Final.raised, refs |-> Final.refs, error |-> Final.error]

\* A query that did not ask for exact has returned the anchors its second,
\* non-exact pass found.
C3_Witness ==
    /\ Succeeded
    /\ Len(call.passes) = 2
    /\ call.result.refs # <<>>

\* C4: a pass that fails returns no candidates and the name of the first stage, in
\* the order of StageOrder, whose filter left none; every stage before it left
\* some, and no step runs after it.
C4_FirstEmptyStage ==
    pc \in {"exact", "returned"} =>
        \A k \in 1..Len(call.passes) :
            LET p  == call.passes[k]
                st == StageTrail(p)
                n  == Len(st)
            IN  (~p.raised /\ p.error # None) =>
                    /\ p.refs = <<>>
                    /\ n >= 1
                    /\ \A i \in 1..n : st[i].step = StageOrder[i]
                    /\ \A i \in 1..(n - 1) : st[i].refs # <<>>
                    /\ st[n].refs = <<>>
                    /\ p.error = st[n].step
                    /\ p.trail[Len(p.trail)].step = p.error

\* A query whose candidates were all of an ignored spec has failed at the last
\* stage.
C4_Witness ==
    /\ pc = "returned"
    /\ ~call.result.raised
    /\ call.result.error = "ignored-specs"
    /\ call.result.refs = <<>>

\* C5: no two anchors of a successful result have the same url; of the candidates
\* that share a url the URL dedup keeps the first in candidate order and no other,
\* and an anchor of the result is the first of its url.
C5_UrlDedup ==
    Succeeded =>
        LET cands == TrailRefs(Final, "linkForHint")
            kept  == TrailRefs(Final, "dedup")
            res   == call.result.refs
            FirstOfUrl(r) == \E i \in 1..Len(cands) :
                                /\ cands[i] = r
                                /\ \A j \in 1..(i - 1) : cands[j].ref.url # r.ref.url
        IN  /\ \A i, j \in 1..Len(res) : i # j => res[i].ref.url # res[j].ref.url
            /\ \A i \in 1..Len(res) : FirstOfUrl(res[i])
            /\ \A i, j \in 1..Len(kept) : i # j => kept[i].ref.url # kept[j].ref.url
            /\ \A i \in 1..Len(kept) : FirstOfUrl(kept[i])
            /\ \A i \in 1..Len(cands) : \E k \in 1..Len(kept) : kept[k].ref.url = cands[i].ref.url

\* Two candidates keyed under different texts had the same url, and the result
\* holds the first of them.
C5_Witness ==
    /\ Succeeded
    /\ \E i, j \in 1..Len(TrailRefs(Final, "linkForHint")) :
          LET cands == TrailRefs(Final, "linkForHint")
          IN  /\ i < j
              /\ cands[i].ref.url = cands[j].ref.url
              /\ cands[i].text # cands[j].text
              /\ cands[i] \in Range(call.result.refs)

\* C6: in a successful result the anchors of one shortname have one level.  They
\* are the candidates of that shortname at its maximal level, or, when the status
\* asked for is "snapshot" and the shortname has snapshot candidates, its snapshot
\* candidates at their maximal level.
C6_LevelResolution ==
    Succeeded =>
        LET cands    == Range(TrailRefs(Final, "dedup"))
            res      == Range(call.result.refs)
            Of(n)    == { c \in cands : c.ref.shortname = n }
            Snaps(n) == { c \in Of(n) : c.ref.status = "snapshot" }
            Pool(n)  == IF call.q.status = "snapshot" /\ Snaps(n) # {} THEN Snaps(n) ELSE Of(n)
            Got(n)   == { r \in res : r.ref.shortname = n }
        IN  /\ res \subseteq cands
            /\ \A n \in { c.ref.shortname : c \in cands } :
                  /\ Got(n) = { c \in Pool(n) :
                                  \A d \in Pool(n) : ~StrLess(c.ref.level, d.ref.level) }
                  /\ \A r1, r2 \in Got(n) : r1.ref.level = r2.ref.level

\* A query for snapshot anchors returned the level-1 snapshot anchor of a shortname
\* that also had a level-2 candidate of another status.
C6_Witness ==
    /\ Succeeded
    /\ call.q.status = "snapshot"
    /\ \E r \in Range(call.result.refs), c \in Range(TrailRefs(Final, "dedup")) :
          /\ r.ref.shortname = c.ref.shortname
          /\ r.ref.status = "snapshot" /\ r.ref.level = "1"
          /\ c.ref.status # "snapshot" /\ c.ref.level = "2"

\* Whether the spec metadata gives the spec no current_url.
NoCurrentUrl(spec) ==
    \/ spec \notin DOMAIN specs
    \/ "current_url" \notin DOMAIN specs[spec]
    \/ specs[spec]["current_url"] = None

\* C7: in a pass with status "current" a candidate survives the status stage if
\* and only if its status is "current", or its status is "snapshot" and its spec
\* has no current_url in the spec metadata.
C7_StatusCurrent ==
    pc \in {"exact", "returned"} /\ call.q.status = "current" =>
        \A k \in 1..Len(call.passes) :
            HasStep(call.passes[k], "status") =>
                LET pre  == TrailRefs(call.passes[k], "for")
                    post == TrailRefs(call.passes[k], "status")
                IN  /\ Range(post) \subseteq Range(pre)
                    /\ \A i \in 1..Len(pre) :
                          pre[i] \in Range(post) <=>
                              \/ pre[i].ref.status = "current"
                              \/ /\ pre[i].ref.status = "snapshot"
                                 /\ NoCurrentUrl(pre[i].ref.spec)

\* The status stage of a query for current anchors kept a snapshot anchor of a
\* spec without current_url and dropped one of a spec with current_url and one of
\* status "local".
C7_Witness ==
    /\ pc = "returned"
    /\ call.q.status = "current"
    /\ HasStep(Final, "status")
    /\ \E a, b, c \in Range(TrailRefs(Final, "for")) :
          /\ a.ref.status = "snapshot" /\ NoCurrentUrl(a.ref.spec)
          /\ a \in Range(TrailRefs(Final, "status"))
          /\ b.ref.status = "snapshot" /\ ~NoCurrentUrl(b.ref.spec)
          /\ b \notin Range(TrailRefs(Final, "status"))
          /\ c.ref.status = "local"
          /\ c \notin Range(TrailRefs(Final, "status"))

\* C8: with ignoreObsoletes and no spec given, no anchor of an ignored spec passes
\* the obsolescence stage or is in the result, and the pass fails at
\* "ignored-specs" when every candidate is of an ignored spec; with a spec given
\* the stage leaves the candidates as they are.
C8_ObsoleteFilter ==
    pc \in {"exact", "returned"} =>
        \A k \in 1..Len(call.passes) :
            LET p == call.passes[k]
            IN  HasStep(p, "ignored-specs") =>
                    LET pre  == TrailRefs(p, "statusHint")
                        post == TrailRefs(p, "ignored-specs")
                    IN  /\ (call.q.ignoreObsoletes /\ call.q.spec = None) =>
                              /\ \A i \in 1..Len(post) : post[i].ref.spec \notin ignoredSpecs
                              /\ \A i \in 1..Len(p.refs) : p.refs[i].ref.spec \notin ignoredSpecs
                              /\ (\A i \in 1..Len(pre) : pre[i].ref.spec \in ignoredSpecs)
                                    => p.error = "ignored-specs"
                        /\ call.q.spec # None => post = pre

\* A query with ignoreObsoletes and no spec succeeded after the obsolescence stage
\* dropped a candidate of an ignored spec.
C8_Witness ==
    /\ Succeeded
    /\ call.q.ignoreObsoletes
    /\ call.q.spec = None
    /\ \E c \in Range(TrailRefs(Final, "statusHint")) :
          /\ c.ref.spec \in ignoredSpecs
          /\ c \notin Range(TrailRefs(Final, "ignored-specs"))

\* The anchors the corpus holds under a key: in the file of the key's group for a
\* lazy source, in self._refs otherwise.
KeyedOnCorpus(key) ==
    IF Lazy
    THEN DictGet(decodeAnchors(DictGet(disk, FileName(groupFromKey(key)), <<>>)), key, <<>>)
    ELSE DictGet(refs, key, <<>>)

Wrapped(key) == [i \in 1..Len(KeyedOnCorpus(key)) |-> RefWrapper(key, KeyedOnCorpus(key)[i])]

\* A query that sets nothing but text and exact.
Bare(q) ==
    /\ q.spec = None /\ q.linkType = None /\ q.linkFor = None /\ q.linkForHint = None
    /\ q.status = None /\ q.statusHint = None /\ q.export = <<>> /\ ~q.ignoreObsoletes

\* A non-exact query with nothing but the text of an argless signature that has
\* registered variants has returned.
VariantQuery ==
    /\ pc = "returned"
    /\ Bare(call.q) /\ ~call.q.exact
    /\ Truthy(call.q.text) /\ EndsWithParens(call.q.text)
    /\ call.q.text \in DOMAIN methods

\* C9 as stated: after addMethodVariants a non-exact query for "name()" has the
\* anchors keyed under every registered full signature among its candidates, in
\* every store state.
C9_VariantsAlwaysSearched ==
    VariantQuery =>
        \A sig \in DOMAIN methods[call.q.text] :
            Range(Wrapped(sig)) \subseteq Range(TrailRefs(Final, "text"))

\* C9 amended: the same when no anchor is keyed exactly "name()"; when one is, the
\* exact pass succeeds, and its candidates, all keyed "name()", are what queryRefs
\* returns from.
C9_VariantsSearchedOnRetry ==
    VariantQuery =>
        IF KeyedOnCorpus(call.q.text) = <<>>
        THEN \A sig \in DOMAIN methods[call.q.text] :
                Range(Wrapped(sig)) \subseteq Range(TrailRefs(Final, "text"))
        ELSE /\ Len(call.passes) = 1
             /\ TrailRefs(Final, "text") = Wrapped(call.q.text)

\* With no anchor keyed "foo()", the query returned the anchor keyed under the
\* registered variant "foo(bar, baz)".
C9_Witness ==
    /\ VariantQuery
    /\ KeyedOnCorpus(call.q.text) = <<>>
    /\ \E sig \in DOMAIN methods[call.q.text] :
          /\ Wrapped(sig) # <<>>
          /\ Range(Wrapped(sig)) \subseteq Range(call.result.refs)

\* C10: when no anchor is keyed exactly to the text and one of the texts a
\* non-exact pass searches has anchors, a query with exact fails at "text"; without
\* exact the exact pass fails at "text" and the retry seeds from exactly the
\* anchors of the searched texts, and with no other argument set it succeeds and
\* returns anchors of those texts.
C10_ExactSeedsFromTextOnly ==
    (/\ pc = "returned"
     /\ Truthy(call.q.text)
     /\ KeyedOnCorpus(call.q.text) = <<>>
     /\ \E t \in Range(textsToSearch(Store, call.q.text, call.q.linkType)) :
           KeyedOnCorpus(t) # <<>>)
    => IF call.q.exact
       THEN /\ Len(call.passes) = 1
            /\ call.result = [raised |-> FALSE, refs |-> <<>>, error |-> "text"]
       ELSE LET texts == textsToSearch(Store, call.q.text, call.q.linkType)
                seeds == Flatten([i \in 1..Len(texts) |-> Wrapped(texts[i])])
            IN  /\ Len(call.passes) = 2
                /\ call.passes[1].refs = <<>> /\ call.passes[1].error = "text"
                /\ TrailRefs(Final, "text") = seeds
                /\ Bare(call.q) =>
                      /\ ~call.result.raised /\ call.result.error = None
                      /\ call.result.refs # <<>>
                      /\ Range(call.result.refs) \subseteq Range(seeds)

\* The query for "Foo", which no anchor is keyed to, succeeded without exact and
\* returned anchors keyed "foo".
C10_Witness ==
    /\ Succeeded
    /\ call.q.text = "Foo" /\ ~call.q.exact /\ Bare(call.q)
    /\ KeyedOnCorpus("Foo") = <<>>
    /\ call.result.refs # <<>>
    /\ \A i \in 1..Len(call.result.refs) : call.result.refs[i].text = "foo"

\* No anchor is resident and, for a lazy source, no anchor file holds a record.
EmptyCorpus ==
    /\ \A k \in DOMAIN refs : refs[k] = <<>>
    /\ Lazy => \A f \in DOMAIN disk : decodeAnchors(disk[f]) = EmptyDict

\* C11: on an empty corpus every query returns ([], "text"), whatever its
\* arguments.
C11_EmptyCorpusFailsAtText ==
    pc = "returned" /\ EmptyCorpus =>
        call.result = [raised |-> FALSE, refs |-> <<>>, error |-> "text"]

\* On an empty corpus a query that sets an argument besides text, without exact,
\* ran both passes and returned ([], "text").
C11_Witness ==
    /\ pc = "returned" /\ EmptyCorpus
    /\ ~call.q.exact /\ ~Bare(call.q)
    /\ Len(call.passes) = 2
    /\ call.result = [raised |-> FALSE, refs |-> <<>>, error |-> "text"]

\* The link type of the query is neither a definition type nor one that maps to
\* definition types.
UnknownLinkType(q) ==
    Truthy(q.linkType) /\ q.linkType \notin dfnTypes /\ q.linkType \notin DOMAIN linkTypeToDfnType

\* C12: a query with an unknown link type and a non-empty seed returns
\* ([], "type"), and the final attempt, and no speculative exact attempt before
\* it, gives "Unknown link type" to linkerror.
C12_UnknownTypeReported ==
    (/\ pc = "returned"
     /\ UnknownLinkType(call.q)
     /\ TrailRefs(Final, "text") # <<>>)
    => /\ call.result = [raised |-> FALSE, refs |-> <<>>, error |-> "type"]
       /\ Final.errorArg
       /\ <<"Unknown link type", call.q.linkType>> \in Range(errors)
       /\ Len(call.passes) = 2 => ~call.passes[1].errorArg

\* The status of the query is neither a ref status nor a link status.
InvalidStatus(q) == Truthy(q.status) /\ q.status \notin refStatus \cup linkStatuses

\* C13: a query with an invalid status always ends in the fault filterByStatus
\* raises, never in a returned (refs, stage) value.
C13_InvalidStatusAlwaysFatal ==
    pc = "returned" /\ InvalidStatus(call.q) => call.result.raised

\* C13 amended: a query with an invalid status ends in the fault exactly when the
\* candidates reach the status stage, that is when the seed and the type, export,
\* spec and for filters all left some; otherwise it returns ([], stage) for the
\* earlier stage that left none.
C13_InvalidStatusFatalAtStatusStage ==
    pc = "returned" /\ InvalidStatus(call.q) =>
        IF HasStep(Final, "for") /\ TrailRefs(Final, "for") # <<>>
        THEN call.result.raised
        ELSE /\ ~call.result.raised
             /\ call.result.refs = <<>>
             /\ call.result.error \in {"text", "type", "export", "spec", "for"}

\* A query with an invalid status failed its exact pass at "text" and ended in the
\* fault in the retry, whose candidates reached the status stage.
C13_Witness ==
    /\ pc = "returned" /\ InvalidStatus(call.q)
    /\ Len(call.passes) = 2
    /\ call.passes[1].error = "text"
    /\ HasStep(Final, "for") /\ TrailRefs(Final, "for") # <<>>
    /\ call.result.raised

(***************************************************************************)
(* The fetch operations on anchor files that may not decode.  The corpora  *)
(* of Spec all decode; here a file may hold a line that is not UTF-8, and  *)
(* the caller of fetchRefs and fetchAllRefs sees whether the call returned *)
(* or raised.                                                              *)
(***************************************************************************)
\* The most times one anchor file is opened.
MaxReads == 2

\* The lines with a line that is not UTF-8 put in after the first k.
Corrupt(lines, k) == SubSeq(lines, 1, k) \o <<BadUtf8>> \o SubSeq(lines, k + 1, Len(lines))

\* The files of a corpus, each one whole or with a bad line as its first key, as
\* the type of its first record, or as the key after its first record.
DamagedDisks(corpus) ==
    LET whole == DiskOf(corpus)
        first(f) == Len(EncodeEntry([key |-> whole[f][1],
                                     a |-> decodeAnchors(whole[f])[whole[f][1]][1]]))
    IN  { d \in [DOMAIN whole -> UNION { {whole[f], Corrupt(whole[f], 0), Corrupt(whole[f], 1),
                                           Corrupt(whole[f], first(f))} : f \in DOMAIN whole }] :
            \A f \in DOMAIN whole :
                d[f] \in {whole[f], Corrupt(whole[f], 0), Corrupt(whole[f], 1),
                          Corrupt(whole[f], first(f))} }

InitFetchAll ==
    /\ source \in {"foreign", "local"}
    /\ \E corpus \in {CorpusFull, CorpusNoArgless} :
          /\ refs = IF source \in lazyLoadedSources THEN EmptyDict ELSE RefsOf(corpus)
          /\ disk \in IF source \in lazyLoadedSources THEN DamagedDisks(corpus)
                      ELSE {DiskOf(<<>>)}
          /\ fors = ForsOf(corpus)
    /\ methods = EmptyDict
    /\ specs = SpecData
    /\ ignoredSpecs = IgnoredSpecData
    /\ replacedSpecs = ReplacedSpecData
    /\ loadedAnchorGroups = {}
    /\ reads = [f \in FileNames |-> 0]
    /\ errors = <<>>
    /\ pc = "idle"
    /\ call = NoCall

\* A call of fetchAllRefs, up to its return or to the exception that leaves it.
FetchAllRefsCall ==
    /\ pc = "idle"
    /\ \A f \in FileNames : reads[f] < MaxReads
    /\ \E r \in {fetchAllRefs(Store)} :
          /\ Install(r.st)
          /\ pc' = IF r.st.fault THEN "raised" ELSE "fetched"
          /\ call' = [q |-> None, op |-> "fetchAllRefs",
                      out |-> IF r.st.fault THEN <<>> ELSE r.out]

\* A call of fetchRefs, likewise.
FetchRefsCall(key) ==
    /\ pc = "idle"
    /\ \A f \in FileNames : reads[f] < MaxReads
    /\ \E r \in {fetchRefs(Store, key)} :
          /\ Install(r.st)
          /\ pc' = IF r.st.fault THEN "raised" ELSE "fetched"
          /\ call' = [q |-> None, op |-> "fetchRefs", out |-> r.out]

\* The caller goes on after the return or the exception.
CallDone ==
    /\ pc \in {"fetched", "raised"}
    /\ pc' = "idle"
    /\ call' = NoCall
    /\ UNCHANGED << source, refs, methods, fors, specs, ignoredSpecs, replacedSpecs,
                    loadedAnchorGroups, disk, reads, errors >>

NextFetchAll ==
    \/ FetchAllRefsCall
    \/ \E key \in FetchKeys : FetchRefsCall(key)
    \/ CallDone

SpecFetchAll == InitFetchAll /\ [][NextFetchAll]_vars

\* C14: fetchAllRefs on a lazy source never raises, whatever file does not
\* decode; every file that decodes has its group marked loaded and its anchors
\* merged, and the whole of self._refs is returned.
C14_FetchAllBestEffort ==
    (pc \in {"fetched", "raised"} /\ call.op = "fetchAllRefs" /\ Lazy) =>
        /\ pc = "fetched"
        /\ \A f \in DOMAIN disk :
              ~decodeRaises(disk[f]) =>
                  /\ GroupOfFile(f) \in loadedAnchorGroups
                  /\ \A k \in DOMAIN decodeAnchors(disk[f]) :
                        k \in DOMAIN refs /\ refs[k] = decodeAnchors(disk[f])[k]
        /\ call.out = Items(refs)

\* The candidates the status policy keeps of cands for a valid status.
PolicyKeeps(cands, status) ==
    LET snapshotSpecs == { r.ref.spec : r \in { x \in Range(cands) : x.ref.status = "snapshot" } }
    IN  SelectSeq(cands, LAMBDA r :
            CASE status = "current"  -> \/ r.ref.status = "current"
                                        \/ r.ref.status = "snapshot" /\ NoCurrentUrl(r.ref.spec)
              [] status = "snapshot" -> \/ r.ref.status = "snapshot"
                                        \/ r.ref.status = "current" /\ r.ref.spec \notin snapshotSpecs
              [] OTHER               -> r.ref.status = status)

\* C15: with status unset and a valid statusHint, the candidates after the hint
\* are those the status policy keeps when it keeps some, and otherwise the
\* candidates as they were; no pass fails at "status".
C15_StatusHintLenient ==
    (/\ pc \in {"exact", "returned"}
     /\ call.q.status = None
     /\ call.q.statusHint \in refStatus \cup linkStatuses)
    => \A k \in 1..Len(call.passes) :
          LET p == call.passes[k]
          IN  /\ p.error # "status"
              /\ HasStep(p, "statusHint") =>
                    LET pre      == TrailRefs(p, "status")
                        narrowed == PolicyKeeps(pre, call.q.statusHint)
                    IN  TrailRefs(p, "statusHint") = IF narrowed # <<>> THEN narrowed ELSE pre

\* A query succeeded whose statusHint matched none of its candidates: they passed
\* the hint unchanged.
C15_Witness ==
    /\ Succeeded
    /\ call.q.status = None
    /\ call.q.statusHint \in refStatus \cup linkStatuses
    /\ HasStep(Final, "statusHint")
    /\ PolicyKeeps(TrailRefs(Final, "status"), call.q.statusHint) = <<>>
    /\ TrailRefs(Final, "statusHint") = TrailRefs(Final, "status")

(***************************************************************************)
(* Sequences of addMethodVariants calls, with the calls made kept in       *)
(* call.log.                                                               *)
(***************************************************************************)
\* The most calls of addMethodVariants in a run.
MaxCalls == 3

RegisterSigs == {"foo(bar, baz)", "foo()", "foo"}

RegisterFors == { <<"Ifc">>, <<"Win">>, <<"Ifc", "Win">> }

RegisterShortnames == {"dom", "html"}

InitMethods ==
    /\ source = "local"
    /\ refs = RefsOf(CorpusFull)
    /\ disk = DiskOf(<<>>)
    /\ fors = ForsOf(CorpusFull)
    /\ methods = EmptyDict
    /\ specs = SpecData
    /\ ignoredSpecs = IgnoredSpecData
    /\ replacedSpecs = ReplacedSpecData
    /\ loadedAnchorGroups = {}
    /\ reads = [f \in FileNames |-> 0]
    /\ errors = <<>>
    /\ pc = "idle"
    /\ call = [q |-> None, log |-> <<>>]

AddMethodVariantsCall(methodSig, forVals, shortname) ==
    /\ Len(call.log) < MaxCalls
    /\ \E st2 \in {addMethodVariants(Store, methodSig, forVals, shortname)} : Install(st2)
    /\ call' = [call EXCEPT !.log = Append(@, [methodSig |-> methodSig, forVals |-> forVals,
                                               shortname |-> shortname])]
    /\ UNCHANGED pc

NextMethods ==
    \E methodSig \in RegisterSigs, forVals \in RegisterFors, shortname \in RegisterShortnames :
        AddMethodVariantsCall(methodSig, forVals, shortname)

SpecMethods == InitMethods /\ [][NextMethods]_vars

\* The signatures of the shape name(args), with the argless key and the argument
\* list of each.
ShapedSigs == {"foo(bar, baz)", "foo()"}

ArglessOf(sig) == "foo()"

ArgsOf(sig) == IF sig = "foo(bar, baz)" THEN <<"bar", "baz">> ELSE <<"">>

\* The calls made for a signature, in call order.
CallsFor(sig) == SelectSeq(call.log, LAMBDA c : c.methodSig = sig)

\* C16: self.methods holds exactly the signatures of the shape name(args) that
\* were registered, each under its argless key, with the contexts of all its calls
\* concatenated in call order, duplicates kept, and the argument list and
\* shortname of its first call; calls with any other signature leave no trace.
C16_VariantsAccumulate ==
    LET registered == { sig \in ShapedSigs : CallsFor(sig) # <<>> }
    IN  /\ DOMAIN methods = { ArglessOf(sig) : sig \in registered }
        /\ \A a \in DOMAIN methods :
              DOMAIN methods[a] = { sig \in registered : ArglessOf(sig) = a }
        /\ \A sig \in registered :
              LET calls == CallsFor(sig)
                  entry == methods[ArglessOf(sig)][sig]
              IN  /\ entry.for = Flatten([i \in 1..Len(calls) |-> calls[i].forVals])
                  /\ entry.args = ArgsOf(sig)
                  /\ entry.shortname = calls[1].shortname

\* "foo(bar, baz)" was registered twice with the same context and different
\* shortnames, and "foo" once: the context is there twice, the shortname is the
\* first one.
C16_Witness ==
    /\ Len(call.log) = 3
    /\ call.log[1] = [methodSig |-> "foo(bar, baz)", forVals |-> <<"Ifc">>, shortname |-> "dom"]
    /\ call.log[2] = [methodSig |-> "foo", forVals |-> <<"Win">>, shortname |-> "html"]
    /\ call.log[3] = [methodSig |-> "foo(bar, baz)", forVals |-> <<"Ifc">>, shortname |-> "html"]
    /\ methods["foo()"]["foo(bar, baz)"] =
          [args |-> <<"bar", "baz">>, for |-> <<"Ifc", "Ifc">>, shortname |-> "dom"]

(***************************************************************************)
(* decodeAnchors on truncated streams: the stream of a corpus is cut line  *)
(* by line from its end, and decoded at every length.                      *)
(***************************************************************************)
\* A corpus whose keys alternate in the stream.
CorpusInterleaved == << CorpusFull[1], CorpusFull[6], CorpusFull[2], CorpusFull[4] >>

DecodeCorpora == { CorpusFull, CorpusInterleaved }

StreamFile == "anchors-fo.data"

InitDecode ==
    /\ source = "foreign"
    /\ \E corpus \in DecodeCorpora :
          /\ disk = [f \in {StreamFile} |-> EncodeEntries(corpus)]
          /\ call = [q |-> None, corpus |-> corpus]
    /\ refs = EmptyDict
    /\ fors = EmptyDict
    /\ methods = EmptyDict
    /\ specs = SpecData
    /\ ignoredSpecs = IgnoredSpecData
    /\ replacedSpecs = ReplacedSpecData
    /\ loadedAnchorGroups = {}
    /\ reads = [f \in FileNames |-> 0]
    /\ errors = <<>>
    /\ pc = "idle"

\* The stream loses its last line.
Truncate ==
    /\ pc = "idle"
    /\ disk[StreamFile] # <<>>
    /\ disk' = [disk EXCEPT ![StreamFile] = SubSeq(@, 1, Len(@) - 1)]
    /\ UNCHANGED << source, refs, methods, fors, specs, ignoredSpecs, replacedSpecs,
                    loadedAnchorGroups, reads, errors, pc, call >>

\* decodeAnchors(stream), its result kept in refs.
Decode ==
    /\ pc = "idle"
    /\ refs' = decodeAnchors(disk[StreamFile])
    /\ pc' = "decoded"
    /\ UNCHANGED << source, methods, fors, specs, ignoredSpecs, replacedSpecs,
                    loadedAnchorGroups, disk, reads, errors, call >>

DecodeDone ==
    /\ pc = "decoded"
    /\ refs' = EmptyDict
    /\ pc' = "idle"
    /\ UNCHANGED << source, methods, fors, specs, ignoredSpecs, replacedSpecs,
                    loadedAnchorGroups, disk, reads, errors, call >>

NextDecode == Truncate \/ Decode \/ DecodeDone

SpecDecode == InitDecode /\ [][NextDecode]_vars

\* How many records of the corpus are whole in the first n lines of its stream.
CompleteCount(corpus, n) ==
    CHOOSE k \in 0..Len(corpus) :
        /\ Len(EncodeEntries(SubSeq(corpus, 1, k))) <= n
        /\ \A j \in (k + 1)..Len(corpus) : Len(EncodeEntries(SubSeq(corpus, 1, j))) > n

\* The entries grouped by key, each key with its anchors in stream order.
Grouped(entries) ==
    [k \in { entries[i].key : i \in 1..Len(entries) } |->
        LET sel == SelectSeq(entries, LAMBDA e : e.key = k)
        IN  [i \in 1..Len(sel) |-> sel[i].a]]

\* C17: decodeAnchors of a stream cut anywhere returns, without raising, exactly
\* the records that are whole before the cut, grouped by key in stream order.
C17_TruncationTolerated ==
    pc = "decoded" =>
        refs = Grouped(SubSeq(call.corpus, 1,
                              CompleteCount(call.corpus, Len(disk[StreamFile]))))

\* A stream cut among the "for" lines of a record, before its "-" line, was
\* decoded to the records before that one.
C17_Witness ==
    /\ pc = "decoded"
    /\ LET n     == Len(disk[StreamFile])
           k     == CompleteCount(call.corpus, n)
           whole == Len(EncodeEntries(SubSeq(call.corpus, 1, k)))
       IN  /\ k >= 2 /\ k < Len(call.corpus)
           /\ n = whole + 10
           /\ call.corpus[k + 1].a.for # <<>>
           /\ DOMAIN refs = { call.corpus[i].key : i \in 1..k }

\* C18: what queryRefs returns has an empty list exactly when it names a failure
\* stage; so has what each pass returns.
C18_EmptyIffStage ==
    /\ pc = "returned" /\ ~call.result.raised =>
          (call.result.refs = <<>> <=> call.result.error # None)
    /\ pc \in {"exact", "returned"} =>
          \A k \in 1..Len(call.passes) :
              ~call.passes[k].raised =>
                  (call.passes[k].refs = <<>> <=> call.passes[k].error # None)

\* A query succeeded whose linkForHint matched none of the candidates it was
\* applied to.
C18_Witness ==
    /\ Succeeded
    /\ Truthy(call.q.linkForHint)
    /\ \A r \in Range(TrailRefs(Final, "ignored-specs")) :
          call.q.linkForHint \notin Range(r.ref.for)
    /\ call.result.refs # <<>>

\* What queryRefs(q) returns from a store: lines 76-80 in one evaluation.
QueryOutcome(st, q) ==
    LET first == queryRefsFirst(st, q)
    IN  IF ~first.raised /\ Retries(q, first)
        THEN LET second == queryRefsSecond(first.st, q)
             IN  [raised |-> second.raised, refs |-> second.refs, error |-> second.error]
        ELSE [raised |-> first.raised, refs |-> first.refs, error |-> first.error]

\* The anchors of all the files, merged.
RECURSIVE MergeFiles(_, _)
MergeFiles(d, files) ==
    IF files = <<>> THEN EmptyDict
    ELSE DictUpdate(decodeAnchors(d[Head(files)]), MergeFiles(d, Tail(files)))

\* The store with the whole corpus resident in a source that is not lazy.
ResidentStore ==
    [Store EXCEPT !.source = "local",
                  !.refs = MergeFiles(disk, SelectSeq(FileOrder, LAMBDA f : f \in DOMAIN disk)),
                  !.loaded = {}]

WithHints(q, statusHint, linkForHint) ==
    [q EXCEPT !.statusHint = statusHint, !.linkForHint = linkForHint]

\* The valid values of statusHint, and none.
HintStatuses == refStatus \cup linkStatuses \cup {None}

\* A query with no hint has returned with success.
SucceededUnhinted ==
    Succeeded /\ call.q.statusHint = None /\ call.q.linkForHint = None

\* C20 as stated: a query that succeeds without hints succeeds with any valid
\* statusHint and any linkForHint added.
C20_HintsNeverFail ==
    SucceededUnhinted =>
        \A h \in HintStatuses, lf \in QueryLinkForHints :
            LET out == QueryOutcome(Store, WithHints(call.q, h, lf))
            IN  ~out.raised /\ out.error = None

\* C20 amended: it succeeds with a linkForHint added, and with a valid statusHint
\* added as well when the obsolescence filter does not run (ignoreObsoletes unset
\* or spec given) or status is set.
C20_HintsKeepSuccess ==
    SucceededUnhinted =>
        \A h \in HintStatuses, lf \in QueryLinkForHints :
            (\/ h = None
             \/ ~call.q.ignoreObsoletes
             \/ Truthy(call.q.spec)
             \/ Truthy(call.q.status))
            => LET out == QueryOutcome(Store, WithHints(call.q, h, lf))
               IN  ~out.raised /\ out.error = None /\ out.refs # <<>>

\* A query without ignoreObsoletes succeeded, and with a statusHint added it
\* succeeds with fewer anchors.
C20_Witness ==
    /\ SucceededUnhinted
    /\ ~call.q.ignoreObsoletes /\ call.q.status = None
    /\ \E h \in HintStatuses \ {None} :
          LET out == QueryOutcome(Store, WithHints(call.q, h, None))
          IN  /\ out.error = None
              /\ out.refs # call.result.refs
              /\ Range(out.refs) \subseteq Range(call.result.refs)

====
